---- MODULE Spec2Model ----
(***************************************************************************)
(* Simulated trading / portfolio subsystem of autonomous_trading_system:   *)
(* the Account ledger, the market price source, and the trade executor.    *)
(*                                                                         *)
(* Money is kept in mills (1/1000 of a dollar) so that the spread of 0.002 *)
(* is exact: a market price of p dollars has the buy price p * 1002 mills  *)
(* and the sell price p * 998 mills.  Market prices are whole dollars.     *)
(* The ORM objects are modelled as the Python objects the services read    *)
(* and assign; one handler invocation is one atomic step.                  *)
(***************************************************************************)
EXTENDS Integers, Sequences, FiniteSets, TLC

\* ------------------------------------------------------------------ bounds
\* most rows the Transaction table holds in the model
MaxTx == 3
\* most calls of update_portfolio_value on one account row
MaxUpdates == 1002
\* most rows the PortfolioSnapshot table holds in the model
MaxSnapshots == 2
\* most cancelled loop tasks that wait for their wake-up beside the current one
MaxOldTasks == 1
\* most trades the cycles of the agents place
MaxCycleTx == 2

\* ------------------------------------------------------- program constants
Scale == 1000
\* settings.initial_balance = 10000.0 dollars
initial_balance == 10000 * Scale
\* settings.spread = 0.002, as mills per dollar
spread == 2
\* random.randint(1, 100)
RandLo == 1
RandHi == 100
\* portfolio_value_history keeps the last 1000 entries
HistoryLimit == 1000

\* ------------------------------------------------------------ input sets
\* accounts seeded by DatabaseManager.create_default_data (one of the four)
DefaultAccounts == {"warren"}
\* a name create_account can add
CustomAccounts == {"custom"}
\* a name no operation ever creates
UnknownAccounts == {"nobody"}
AccountNames == DefaultAccounts \cup CustomAccounts \cup UnknownAccounts

\* symbols as callers type them, and the tickers they upper-case to
Symbols == {"AAPL", "aapl", "MSFT"}
Tickers == {"AAPL", "MSFT"}
\* the symbols of the orders on the ledger
LedgerSymbols == {"aapl", "MSFT"}
\* quantity: int of TradeRequest, not validated anywhere
Quantities == {-1, 0, 1, 5}
\* the orders placed on an account of chosen initial balance
FundsSymbols == {"aapl"}
FundsQuantities == {-1, 1, 5}
\* the draw of the random fallback the model follows
RandPrices == {RandHi}
\* the draws of the random fallback, per ticker, during a valuation
ValuationDraws == {[t \in Tickers |-> IF t = "AAPL" THEN RandHi ELSE RandLo]}
\* initial_balance arguments of create_account (0 stands for None)
CreateBalances == {0, 501 * Scale}
\* what the external feed knows on a day it answers
FeedClose == 120
FeedDaily == [s \in {"AAPL"} |-> FeedClose]
EmptyDict == [s \in {} |-> 0]
\* one answer of the feed for the duration of a handler: unreachable, or the
\* grouped daily closes and the snapshot fields of a known ticker
FeedDown == [up |-> FALSE, daily |-> EmptyDict, min_close |-> 0, prev_close |-> 0]
FeedResponses ==
    {FeedDown}
    \cup {[up |-> TRUE, daily |-> FeedDaily, min_close |-> m, prev_close |-> FeedClose] :
             m \in {0, FeedClose}}

\* market_prices dicts a caller passes to create_portfolio_snapshot: draws of
\* the random fallback (a high and a low one) and a dict without any price
SnapshotPrices == ValuationDraws \cup {[t \in Tickers |-> RandLo], EmptyDict}
\* the initial_balance of the account whose snapshots are taken
SnapshotBalances == {501 * Scale}

\* the step after the ledger commit of a trade that fails: none, the price
\* fetch of the valuation, the delivery of the notification, the success log
NoFault == {"none"}
PostCommitFaults == {"none", "valuation", "notification", "log"}
\* the orders placed while post-commit steps fail
FaultQuantities == {1, 5}

\* the agents of AgentService._initialize_agents (two of the four), in the
\* order of the agents dict
AgentOrder == <<"warren", "george">>
AgentNames == {AgentOrder[i] : i \in 1..Len(AgentOrder)}
\* account names in the path of the start and stop routes
AgentRequestNames == AgentNames \cup UnknownAccounts
\* whether the market is open each time the loop asks, in the hours the
\* model follows
OpenHours == {TRUE}
\* whether the market is open when the loop asks, at any hour
MarketHours == BOOLEAN
\* settings.run_even_when_market_is_closed: the default, and either value
DefaultOverride == {FALSE}
Overrides == BOOLEAN
\* len(account.holdings) > 5 makes a rebalancing cycle sell
RebalanceThreshold == 5
\* the balance in dollars above which a trading cycle buys, and the price per
\* share its estimate of max_shares assumes
BuyFloor == 100
\* the bounds of the buy and sell quantities a trading cycle draws
MaxBuyQuantity == 10
MaxSellQuantity == 5
\* random.choice(["buy", "sell", "hold"]), the symbols and the quantities the
\* model follows
AgentActions == {"buy", "sell", "hold"}
AgentSymbols == {"AAPL"}
AgentQuantities == {1}
\* what fails in a cycle: nothing, the account lookup, the commit of the
\* start log, or that commit and the commit of the error log after it
CycleFaults == {"none", "lookup", "start_log", "start_log_and_error_log"}
\* the first symbols of the list an agent draws from, in an order of purchase
PositionOrder == <<"AAPL", "GOOGL", "MSFT", "AMZN", "TSLA", "META", "NVDA">>
PositionSymbols == {PositionOrder[i] : i \in 1..Len(PositionOrder)}
\* how many of them an account holds when its agent rebalances
PositionCounts == {5, 6, 7}
\* the draws of the random fallback for those symbols
PositionDraws == {[t \in PositionSymbols |-> RandHi]}
\* the shares of one symbol an order of the trade route bought before the
\* agent trades: they leave 982, 180.4 and 80.2 dollars of the 10000
SeedQuantities == {90, 98, 99}
\* the quantities a cycle may draw: the caps of the sell and the buy draw and
\* the numbers next to them
OrderQuantities == {1, MaxSellQuantity, MaxSellQuantity + 1, MaxBuyQuantity,
                    MaxBuyQuantity + 1}

\* settings.polygon_api_key / polygon_plan: no key, free plan, paid or realtime plan
FeedConfigs == {"none", "eod", "realtime"}

VARIABLES
    accounts,      \* accounts table: name -> Account row
    transactions,  \* transactions table, in insertion order
    market_data,   \* fresh MarketData rows dated today: ticker -> close_price
    feed,          \* price feed configuration of the process
    snapshots,     \* portfolio_snapshots table, in insertion order
    notified,      \* what the last send_push_notification returned
    agents,        \* AgentService.agents: name -> TradingAgent
    is_running,    \* AgentService.is_running
    trading_task,  \* AgentService.trading_task: the loop task last created
    old_tasks,     \* loop tasks created earlier that have not finished
    ran,           \* what the last step of a loop task did
    fresh,         \* the agents started while inactive that ran no cycle since
    run_even_when_market_is_closed,  \* the setting of that name of the process
    seed,          \* per account, the balance it was last seeded with
    last           \* response of the last handler invocation

vars == <<accounts, transactions, market_data, feed, snapshots, notified,
          agents, is_running, trading_task, old_tasks, ran, fresh,
          run_even_when_market_is_closed, seed, last>>

\* the state of the agent service, the setting its loop reads and what is
\* recorded about its loop
agentVars == <<agents, is_running, trading_task, old_tasks, ran, fresh,
               run_even_when_market_is_closed>>

\* ------------------------------------------------------------ dict helpers
Get(d, k, default) == IF k \in DOMAIN d THEN d[k] ELSE default
Put(d, k, v) == [x \in DOMAIN d \cup {k} |-> IF x = k THEN v ELSE d[x]]
Del(d, k) == [x \in DOMAIN d \ {k} |-> d[x]]

\* str.upper() on the symbols of the model
Upper(s) == IF s = "aapl" THEN "AAPL" ELSE s

RECURSIVE SumOver(_, _, _)
\* sum(quantity * market_prices.get(symbol, 0.0) for symbol, quantity in holdings.items())
SumOver(holdings, market_prices, todo) ==
    IF todo = {} THEN 0
    ELSE LET s == CHOOSE x \in todo : TRUE
         IN  holdings[s] * Get(market_prices, s, 0) * Scale
             + SumOver(holdings, market_prices, todo \ {s})

\* ------------------------------------------------------ market price source
\* MarketService._get_cached_market_data: None (here the empty dict, which the
\* caller's truth test treats alike) when no fresh row is dated today
GetCachedMarketData(md) == md

\* MarketService._cache_market_data: update or create one row per fetched ticker
CacheMarketData(md, price_data) ==
    [s \in DOMAIN md \cup DOMAIN price_data |->
        IF s \in DOMAIN price_data THEN price_data[s] ELSE md[s]]

\* MarketService._get_market_data_for_date: the cached rows when there are any,
\* else a fresh fetch (an exception of the fetch is caught and gives {})
GetMarketDataForDate(md, resp) ==
    IF DOMAIN GetCachedMarketData(md) # {} THEN GetCachedMarketData(md)
    ELSE IF resp.up THEN resp.daily
    ELSE EmptyDict

\* the MarketData rows after a handler that asked the end-of-day feed
MarketDataAfterFetch(md, resp) ==
    IF DOMAIN GetCachedMarketData(md) = {} /\ resp.up
    THEN CacheMarketData(md, resp.daily)
    ELSE md

\* MarketService._get_share_price_polygon_eod: market_data.get(symbol, 0.0)
GetSharePricePolygonEod(symbol, md, resp) ==
    Get(GetMarketDataForDate(md, resp), symbol, 0)

\* get_snapshot_ticker raises when the feed is down or does not know the ticker
RealtimeRaises(symbol, resp) == ~resp.up \/ symbol \notin DOMAIN resp.daily

\* MarketService._get_share_price_polygon_realtime: result.min.close or result.prev_day.close
GetSharePricePolygonRealtime(resp) ==
    IF resp.min_close # 0 THEN resp.min_close ELSE resp.prev_close

\* MarketService._get_cached_price: the fresh row of symbol.upper(), if any
HasCachedPrice(symbol, md) == Upper(symbol) \in DOMAIN md
GetCachedPrice(symbol, md) == md[Upper(symbol)]

\* MarketService.get_share_price, for the feed configuration cfg, the rows md,
\* the feed's answer resp and the draw rnd of the random fallback
GetSharePrice(cfg, symbol, md, resp, rnd) ==
    IF cfg = "eod" THEN GetSharePricePolygonEod(symbol, md, resp)
    ELSE IF cfg = "realtime" /\ ~RealtimeRaises(symbol, resp)
         THEN GetSharePricePolygonRealtime(resp)
    ELSE IF HasCachedPrice(symbol, md) THEN GetCachedPrice(symbol, md)
    ELSE rnd

\* the MarketData rows after a handler that called get_share_price
MarketDataAfter(cfg, md, resp) ==
    IF cfg = "eod" THEN MarketDataAfterFetch(md, resp) ELSE md

\* MarketService.get_multiple_prices: one get_share_price per symbol, each
\* with its own draw rnds[symbol]
GetMultiplePrices(cfg, symbols, md, resp, rnds) ==
    [s \in symbols |-> GetSharePrice(cfg, s, md, resp, rnds[s])]

\* ------------------------------------------------------------------- ledger
\* Account.add_holding
add_holding(holdings, symbol, quantity) ==
    LET h == Put(holdings, symbol, Get(holdings, symbol, 0) + quantity)
    IN  IF h[symbol] = 0 THEN Del(h, symbol) ELSE h

\* the holdings check asking only whether the symbol is held
CanRemoveHoldingIfHeld(holdings, symbol, quantity) ==
    Get(holdings, symbol, 0) > 0

\* Account.remove_holding: whether it returns True, and the holdings it leaves
CanRemoveHolding(holdings, symbol, quantity) ==
    Get(holdings, symbol, 0) >= quantity

remove_holding(holdings, symbol, quantity) ==
    IF CanRemoveHolding(holdings, symbol, quantity)
    THEN LET h == Put(holdings, symbol, Get(holdings, symbol, 0) - quantity)
         IN  IF h[symbol] = 0 THEN Del(h, symbol) ELSE h
    ELSE holdings

\* a valuation that leaves the cash out
calculate_portfolio_value_without_cash(account, market_prices) ==
    SumOver(account.holdings, market_prices, DOMAIN account.holdings)

\* Account.calculate_portfolio_value
calculate_portfolio_value(account, market_prices) ==
    account.balance + SumOver(account.holdings, market_prices, DOMAIN account.holdings)

\* a slice keeping the oldest entries instead
LastNFromOldest(seq, n) ==
    IF Len(seq) > n THEN SubSeq(seq, 1, n) ELSE seq

\* the list slice history[-1000:]
LastN(seq, n) ==
    IF Len(seq) > n THEN SubSeq(seq, Len(seq) - n + 1, Len(seq)) ELSE seq

\* Account.update_portfolio_value
update_portfolio_value(account, new_value) ==
    [account EXCEPT
        !.total_portfolio_value = new_value,
        !.portfolio_value_history = LastN(Append(@, new_value), HistoryLimit)]

\* a new Account row
NewAccount(balance) ==
    [balance |-> balance,
     holdings |-> EmptyDict,
     portfolio_value_history |-> <<>>,
     total_portfolio_value |-> 0,
     total_profit_loss |-> 0,
     win_rate |-> [num |-> 0, den |-> 1]]

\* ---------------------------------------------------------- account service
Transaction(name, symbol, quantity, price, type, total) ==
    [account |-> name, symbol |-> symbol, quantity |-> quantity, price |-> price,
     transaction_type |-> type, total_value |-> total]

\* the spread left out of the buy price
BuyPriceNoSpread(price) == price * Scale

\* buy_price = price * (1 + settings.spread), in mills
BuyPrice(price) == price * (Scale + spread)

\* the spread added to the sell price instead of taken off
SellPriceSpreadAdded(price) == price * (Scale + spread)

\* sell_price = price * (1 - settings.spread), in mills
SellPrice(price) == price * (Scale - spread)

\* the funds check turning away a cost equal to the balance
InsufficientFundsAtEqual(total_cost, balance) == total_cost >= balance

\* the funds check of buy_shares
InsufficientFunds(total_cost, balance) == total_cost > balance

\* AccountService.buy_shares on the row account of name: the exception raised
\* ("ok" when none), the row and the transactions table it leaves, the value returned
buy_shares(account, txs, name, symbol, quantity, price) ==
    LET buy_price == BuyPrice(price)
        total_cost == buy_price * quantity
    IN  IF InsufficientFunds(total_cost, account.balance)
        THEN [status |-> "InsufficientFunds", account |-> account, txs |-> txs, total |-> 0]
        ELSE IF price <= 0
        THEN [status |-> "InvalidPrice", account |-> account, txs |-> txs, total |-> 0]
        ELSE [status |-> "ok",
              account |-> [account EXCEPT
                              !.balance = @ - total_cost,
                              !.holdings = add_holding(@, Upper(symbol), quantity)],
              txs |-> Append(txs, Transaction(name, Upper(symbol), quantity,
                                              buy_price, "buy", total_cost)),
              total |-> total_cost]

\* AccountService.sell_shares, likewise
sell_shares(account, txs, name, symbol, quantity, price) ==
    LET sym == Upper(symbol)
        sell_price == SellPrice(price)
        total_proceeds == sell_price * quantity
    IN  IF ~CanRemoveHolding(account.holdings, sym, quantity)
        THEN [status |-> "InsufficientHoldings", account |-> account, txs |-> txs,
              total |-> 0]
        ELSE [status |-> "ok",
              account |-> [account EXCEPT
                              !.holdings = remove_holding(@, sym, quantity),
                              !.balance = @ + total_proceeds],
              txs |-> Append(txs, Transaction(name, sym, 0 - quantity,
                                              sell_price, "sell", total_proceeds)),
              total |-> total_proceeds]

\* the SELL transactions of an account, as update_portfolio_metrics queries them
SellsOf(txs, name) ==
    {i \in 1..Len(txs) : txs[i].account = name /\ txs[i].transaction_type = "sell"}

\* metrics whose win rate divides by the buys as well as the sells
update_portfolio_metrics_over_all_trades(account, current_value, txs, name) ==
    LET a1 == [update_portfolio_value(account, current_value) EXCEPT
                  !.total_profit_loss = current_value - initial_balance]
        sells == SellsOf(txs, name)
        profitable_trades == Cardinality({i \in sells : txs[i].price > 0})
    IN  IF sells # {}
        THEN [a1 EXCEPT !.win_rate =
                 [num |-> profitable_trades,
                  den |-> Cardinality({i \in 1..Len(txs) : txs[i].account = name})]]
        ELSE a1

\* AccountService.update_portfolio_metrics
update_portfolio_metrics(account, current_value, txs, name) ==
    LET a1 == [update_portfolio_value(account, current_value) EXCEPT
                  !.total_profit_loss = current_value - initial_balance]
        sells == SellsOf(txs, name)
        profitable_trades == Cardinality({i \in sells : txs[i].price > 0})
    IN  IF sells # {}
        THEN [a1 EXCEPT !.win_rate = [num |-> profitable_trades,
                                      den |-> Cardinality(sells)]]
        ELSE a1

\* the rows of the transactions table that do not belong to name
DeleteTransactions(txs, name) == SelectSeq(txs, LAMBDA t : t.account # name)

\* a reset that leaves the PortfolioSnapshot rows alone
DeleteSnapshotsKeepingAll(snaps, name) == snaps

\* the rows of the portfolio_snapshots table that do not belong to name
DeleteSnapshots(snaps, name) == SelectSeq(snaps, LAMBDA p : p.account # name)

\* a reset that forgets to empty the holdings
reset_account_keeping_holdings(account) ==
    [account EXCEPT
        !.balance = initial_balance,
        !.portfolio_value_history = <<>>,
        !.total_portfolio_value = initial_balance,
        !.total_profit_loss = 0,
        !.win_rate = [num |-> 0, den |-> 1]]

\* AccountService.reset_account: the Account row it leaves
reset_account(account) ==
    [account EXCEPT
        !.balance = initial_balance,
        !.holdings = EmptyDict,
        !.portfolio_value_history = <<>>,
        !.total_portfolio_value = initial_balance,
        !.total_profit_loss = 0,
        !.win_rate = [num |-> 0, den |-> 1]]

\* --------------------------------------------------------- portfolio snapshot
\* the per-symbol entry of a snapshot; weight is the fraction value / total_value
HoldingBreakdown(quantity, price, value, weight) ==
    [quantity |-> quantity, price |-> price, value |-> value, weight |-> weight]

\* PortfolioSnapshot.create_from_account on the row account of name
create_from_account(name, account, market_prices) ==
    LET price(s) == Get(market_prices, s, 0)
        value(s) == account.holdings[s] * price(s) * Scale
        invested_value == SumOver(account.holdings, market_prices, DOMAIN account.holdings)
        total_value == account.balance + invested_value
        weight(s) == IF total_value > 0
                     THEN [num |-> value(s), den |-> total_value]
                     ELSE [num |-> 0, den |-> 1]
    IN  [account |-> name,
         total_value |-> total_value,
         cash_balance |-> account.balance,
         invested_value |-> invested_value,
         holdings |-> [s \in DOMAIN account.holdings |->
                          HoldingBreakdown(account.holdings[s], price(s), value(s),
                                           weight(s))]]

\* ----------------------------------------------------------- trade executor
Response(op, name, symbol, quantity, price, status, total) ==
    [op |-> op, account |-> name, symbol |-> symbol, quantity |-> quantity,
     market_price |-> price, status |-> status, total |-> total]

\* the price check letting a price of 0 through
InvalidMarketPriceBelowZero(market_price) == market_price < 0

\* the price check of execute_buy_order and execute_sell_order
InvalidMarketPrice(market_price) == market_price <= 0

\* the symbols whose prices the valuation after a trade fetches: every holdings
\* key after a buy, the keys of positive quantity after a sell
ValuationSymbols(op, holdings) ==
    IF op = "buy" THEN DOMAIN holdings
    ELSE {s \in DOMAIN holdings : holdings[s] > 0}

\* the market_prices dict of that valuation
ValuationPrices(op, holdings, md, resp, rnds) ==
    GetMultiplePrices(feed, ValuationSymbols(op, holdings), md, resp, rnds)

\* the steps after the ledger commit of a trade: the valuation of the holdings
\* at freshly fetched prices and the metrics update
RefreshMetrics(op, account, txs, name, md, resp, rnds) ==
    LET market_prices == ValuationPrices(op, account.holdings, md, resp, rnds)
        current_value == calculate_portfolio_value(account, market_prices)
    IN  update_portfolio_metrics(account, current_value, txs, name)

\* NotificationService.send_push_notification: True without Pushover
\* credentials or on a 200 answer, False when the post fails; it never raises
send_push_notification(fault) == fault # "notification"

\* an except handler that takes the ledger back to what it was before the trade
AfterPostCommitFailureRolledBack(committed, before) == before

\* the except handler of execute_buy_order and execute_sell_order: it logs the
\* error, commits and re-raises, leaving what buy_shares or sell_shares committed
AfterPostCommitFailure(committed, before) == committed

\* TradingService.execute_buy_order (op "buy", calling buy_shares) and
\* execute_sell_order (op "sell", calling sell_shares), which differ in nothing
\* else.  fault names the step after the ledger commit that fails, if any: the
\* price fetch of the valuation, the delivery of the notification, or the
\* commit of the success log.
ExecuteOrder(op, name, symbol, quantity, resp, rnd, rnds, fault) ==
    IF name \notin DOMAIN accounts
    THEN /\ last' = Response(op, name, "", 0, 0, "AccountNotFound", 0)
         /\ UNCHANGED <<accounts, transactions, market_data, feed, snapshots,
                        notified, seed>>
    ELSE LET market_price == GetSharePrice(feed, symbol, market_data, resp, rnd)
             md == MarketDataAfter(feed, market_data, resp)
             r == IF op = "buy"
                  THEN buy_shares(accounts[name], transactions, name, symbol,
                                  quantity, market_price)
                  ELSE sell_shares(accounts[name], transactions, name, symbol,
                                   quantity, market_price)
         IN  /\ market_data' = md
             /\ UNCHANGED <<feed, snapshots, seed>>
             /\ IF InvalidMarketPrice(market_price)
                THEN /\ last' = Response(op, name, symbol, quantity, market_price,
                                         "InvalidPrice", 0)
                     /\ UNCHANGED <<accounts, transactions, notified>>
                ELSE IF r.status # "ok"
                THEN /\ last' = Response(op, name, symbol, quantity, market_price,
                                         r.status, 0)
                     /\ UNCHANGED <<accounts, transactions, notified>>
                ELSE IF fault = "valuation"
                THEN /\ transactions' = AfterPostCommitFailure(r.txs, transactions)
                     /\ accounts' = AfterPostCommitFailure(
                            [accounts EXCEPT ![name] = r.account], accounts)
                     /\ UNCHANGED notified
                     /\ last' = Response(op, name, symbol, quantity, market_price,
                                         "PostCommitError", 0)
                ELSE IF fault = "log"
                THEN /\ transactions' = AfterPostCommitFailure(r.txs, transactions)
                     /\ accounts' = AfterPostCommitFailure(
                            [accounts EXCEPT ![name] =
                                RefreshMetrics(op, r.account, r.txs, name, md, resp, rnds)],
                            accounts)
                     /\ notified' = send_push_notification(fault)
                     /\ last' = Response(op, name, symbol, quantity, market_price,
                                         "PostCommitError", 0)
                ELSE /\ transactions' = r.txs
                     /\ accounts' = [accounts EXCEPT ![name] =
                            RefreshMetrics(op, r.account, r.txs, name, md, resp, rnds)]
                     /\ notified' = send_push_notification(fault)
                     /\ last' = Response(op, name, symbol, quantity, market_price,
                                         "ok", r.total)

\* the buy route
ExecuteBuyOrder(name, symbol, quantity, resp, rnd, rnds, fault) ==
    /\ Len(transactions) < MaxTx
    /\ ExecuteOrder("buy", name, symbol, quantity, resp, rnd, rnds, fault)
    /\ UNCHANGED agentVars

\* the sell route
ExecuteSellOrder(name, symbol, quantity, resp, rnd, rnds, fault) ==
    /\ Len(transactions) < MaxTx
    /\ ExecuteOrder("sell", name, symbol, quantity, resp, rnd, rnds, fault)
    /\ UNCHANGED agentVars

\* AccountService.create_account
CreateAccount(name, balance) ==
    /\ UNCHANGED <<transactions, market_data, feed, snapshots, notified>>
    /\ UNCHANGED agentVars
    /\ IF name \in DOMAIN accounts
       THEN /\ last' = Response("create", name, "", 0, 0, "AccountExists", 0)
            /\ UNCHANGED <<accounts, seed>>
       ELSE LET b == IF balance # 0 THEN balance ELSE initial_balance
            IN  /\ accounts' = Put(accounts, name, NewAccount(b))
                /\ seed' = Put(seed, name, b)
                /\ last' = Response("create", name, "", 0, 0, "ok", b)

\* the reset route: AccountService.reset_account on the account of that name
ResetAccount(name) ==
    /\ UNCHANGED <<market_data, feed, notified>>
    /\ UNCHANGED agentVars
    /\ IF name \notin DOMAIN accounts
       THEN /\ last' = Response("reset", name, "", 0, 0, "AccountNotFound", 0)
            /\ UNCHANGED <<accounts, transactions, snapshots, seed>>
       ELSE /\ transactions' = DeleteTransactions(transactions, name)
            /\ snapshots' = DeleteSnapshots(snapshots, name)
            /\ accounts' = [accounts EXCEPT ![name] = reset_account(@)]
            /\ seed' = [seed EXCEPT ![name] = initial_balance]
            /\ last' = Response("reset", name, "", 0, 0, "ok", initial_balance)

\* AccountService.create_portfolio_snapshot on the account of that name, at
\* the prices the caller passes
CreatePortfolioSnapshot(name, market_prices) ==
    /\ name \in DOMAIN accounts
    /\ Len(snapshots) < MaxSnapshots
    /\ LET snapshot == create_from_account(name, accounts[name], market_prices)
       IN  /\ snapshots' = Append(snapshots, snapshot)
           /\ last' = Response("snapshot", name, "", 0, 0, "ok", snapshot.total_value)
    /\ UNCHANGED <<accounts, transactions, market_data, feed, notified, seed>>
    /\ UNCHANGED agentVars

\* the clock passes the freshness window (or the date changes): no MarketData
\* row counts as fresh any more
ExpireMarketData ==
    /\ market_data # EmptyDict
    /\ market_data' = EmptyDict
    /\ last' = Response("expire", "", "", 0, 0, "ok", 0)
    /\ UNCHANGED <<accounts, transactions, feed, snapshots, notified, seed>>
    /\ UNCHANGED agentVars

\* Account.update_portfolio_value called on the row of name
UpdatePortfolioValue(name, new_value) ==
    /\ name \in DOMAIN accounts
    /\ accounts' = [accounts EXCEPT ![name] = update_portfolio_value(@, new_value)]
    /\ last' = Response("valuation", name, "", 0, 0, "ok", new_value)
    /\ UNCHANGED <<transactions, market_data, feed, snapshots, notified, seed>>
    /\ UNCHANGED agentVars

\* a valuation that stores its result in the row
AfterValuationStored(account, current_value) ==
    update_portfolio_value(account, current_value)

\* the Account row a call of calculate_portfolio_value leaves: it reads
\* balance and holdings and assigns nothing
AfterValuation(account, current_value) == account

\* what a call of calculate_portfolio_value returned, with its argument
ValuationResponse(name, market_prices, current_value) ==
    [op |-> "value", account |-> name, symbol |-> "", quantity |-> 0,
     market_price |-> 0, status |-> "ok", total |-> current_value,
     market_prices |-> market_prices]

\* AccountService.calculate_portfolio_value on the row of name, at the prices
\* the caller passes
CalculatePortfolioValue(name, market_prices) ==
    /\ name \in DOMAIN accounts
    /\ LET current_value == calculate_portfolio_value(accounts[name], market_prices)
       IN  /\ accounts' = [accounts EXCEPT ![name] = AfterValuation(@, current_value)]
           /\ last' = ValuationResponse(name, market_prices, current_value)
    /\ UNCHANGED <<transactions, market_data, feed, snapshots, notified, seed>>
    /\ UNCHANGED agentVars

\* ------------------------------------------------------------ trading agent
\* TradingAgent.__init__
TradingAgent == [is_active |-> FALSE, do_trade |-> TRUE]

\* the mode a cycle of the agent runs in and logs
Mode(agent) == IF agent.do_trade THEN "trading" ELSE "rebalancing"

\* a cycle that leaves the flag as it is
ToggleModeNot(do_trade) == do_trade

\* self.do_trade = not self.do_trade
ToggleMode(do_trade) == ~do_trade

\* the exception leaves execute_trading_cycle: a failing account lookup leaves
\* the name account unbound, which the except handler then reads; a failing
\* commit of the error log is raised inside the handler
CycleRaises(fault) == fault \in {"lookup", "start_log_and_error_log"}

\* random.randint(1, min(current_quantity, 5)) raises on an empty range: the
\* holding drawn for a sell is below 1
DrawRaises(name, action, symbol) ==
    /\ name \in DOMAIN accounts
    /\ agents[name].do_trade
    /\ action = "sell"
    /\ symbol \in DOMAIN accounts[name].holdings
    /\ accounts[name].holdings[symbol] < 1

\* the exception is caught by the except handler of the cycle, which logs it:
\* a failing commit of the start log, or the draw of the quantity raising
CycleCaught(name, fault, action, symbol) ==
    ~CycleRaises(fault) /\ (fault = "start_log" \/ DrawRaises(name, action, symbol))

\* how a cycle on an active agent ends: an exception leaves it, an exception was
\* caught and logged in it, or it ran to its end
Outcome(name, fault, action, symbol) ==
    IF CycleRaises(fault) THEN "raised"
    ELSE IF CycleCaught(name, fault, action, symbol) THEN "failed"
    ELSE "completed"

\* the step of an order placed by a cycle that fails after the ledger commit,
\* when the fault of the cycle is one of those
OrderFault(fault) == IF fault \in PostCommitFaults THEN fault ELSE "none"

\* the steps of a cycle that touch nothing of the ledger
NoTrade(name, status) ==
    /\ last' = Response("cycle", name, "", 0, 0, status, 0)
    /\ UNCHANGED <<accounts, transactions, market_data, feed, snapshots,
                   notified, seed>>

\* a draw that leaves max_shares out
BuyQuantityRangeUncapped(balance) == 1..MaxBuyQuantity

\* random.randint(1, min(10, max_shares)) with max_shares = int(balance / 100)
BuyQuantityRange(balance) ==
    LET max_shares == balance \div (BuyFloor * Scale)
    IN  1..(IF max_shares < MaxBuyQuantity THEN max_shares ELSE MaxBuyQuantity)

\* random.randint(1, min(current_quantity, 5))
SellQuantityRange(current_quantity) ==
    1..(IF current_quantity < MaxSellQuantity THEN current_quantity ELSE MaxSellQuantity)

\* TradingAgent._execute_trades for the drawn action, symbol and quantity; a
\* failure of the order is caught and logged
ExecuteTrades(name, fault, action, symbol, quantity, rnd, rnds) ==
    LET account == accounts[name]
    IN  IF action = "hold"
        THEN NoTrade(name, "hold")
        ELSE IF action = "buy"
        THEN IF account.balance > BuyFloor * Scale
             THEN /\ symbol \in AgentSymbols
                  /\ quantity \in BuyQuantityRange(account.balance)
                  /\ ExecuteOrder("buy", name, symbol, quantity, FeedDown, rnd, rnds,
                                  OrderFault(fault))
             ELSE NoTrade(name, "skipped")
        ELSE IF DOMAIN account.holdings # {}
             THEN /\ symbol \in DOMAIN account.holdings
                  /\ quantity \in SellQuantityRange(account.holdings[symbol])
                  /\ ExecuteOrder("sell", name, symbol, quantity, FeedDown, rnd, rnds,
                                  OrderFault(fault))
             ELSE NoTrade(name, "skipped")

\* a test that already finds 5 positions too many
TooManyPositionsFromThreshold(holdings) ==
    Cardinality(DOMAIN holdings) >= RebalanceThreshold

\* len(account.holdings) > 5
TooManyPositions(holdings) == Cardinality(DOMAIN holdings) > RebalanceThreshold

\* TradingAgent._rebalance_portfolio: with more than 5 positions, sell one
\* share of a drawn holding, swallowing a failure
RebalancePortfolio(name, fault, symbol, rnd, rnds) ==
    IF TooManyPositions(accounts[name].holdings)
    THEN /\ symbol \in DOMAIN accounts[name].holdings
         /\ ExecuteOrder("sell", name, symbol, 1, FeedDown, rnd, rnds,
                         OrderFault(fault))
    ELSE NoTrade(name, "rebalanced")

\* TradingAgent.execute_trading_cycle of the agent name
ExecuteTradingCycle(name, fault, action, symbol, quantity, rnd, rnds) ==
    IF ~agents[name].is_active
    THEN /\ NoTrade(name, "inactive")
         /\ UNCHANGED <<agents, fresh>>
    ELSE IF Outcome(name, fault, action, symbol) # "completed"
    THEN /\ NoTrade(name, Outcome(name, fault, action, symbol))
         /\ UNCHANGED agents
         /\ fresh' = fresh \ {name}
    ELSE /\ IF agents[name].do_trade
            THEN /\ action # "hold" => Len(transactions) < MaxCycleTx
                 /\ ExecuteTrades(name, fault, action, symbol, quantity, rnd, rnds)
            ELSE RebalancePortfolio(name, fault, symbol, rnd, rnds)
         /\ agents' = [agents EXCEPT ![name].do_trade = ToggleMode(@)]
         /\ fresh' = fresh \ {name}

\* ------------------------------------------------------------ agent service
\* a loop task: where its coroutine is suspended (not yet started, at one of
\* the sleeps of _trading_loop, or finished), the position of the for loop
\* over the agents, and whether cancel() was called on it
Task(pc, pos, cancelled) == [pc |-> pc, pos |-> pos, cancelled |-> cancelled]
\* trading_task = None
NoTask == Task("none", 0, FALSE)
\* asyncio.create_task(self._trading_loop())
NewTask == Task("new", 0, FALSE)
DoneTask == Task("done", 0, FALSE)
Live(task) == task.pc \notin {"none", "done"}

\* a cancel() that has no effect
CancelIgnored(task) == task

\* Task.cancel(): a request that a live task receives at its next wake-up
Cancel(task) == IF Live(task) THEN [task EXCEPT !.cancelled = TRUE] ELSE task

\* a start that never sets the loop going
LoopNeededNever(running) == FALSE

\* start_all_agents and start_agent create the loop task only when not running
LoopNeeded(running) == ~running

\* the tasks after create_task: the task trading_task referred to lives on
\* without a reference when it has not finished
OldTasksAfterCreate == IF Live(trading_task) THEN Append(old_tasks, trading_task)
                       ELSE old_tasks

CanCreateTask == Live(trading_task) => Len(old_tasks) < MaxOldTasks

NoRun == [by |-> "none", cancelled |-> FALSE, market |-> "unasked", agent |-> "",
          mode |-> "", outcome |-> ""]

\* a stop that leaves the agent's flag set
DeactivateNot(agent) == agent

\* agent.is_active = False
Deactivate(agent) == [agent EXCEPT !.is_active = FALSE]

\* the agents among names that a start finds inactive
Started(names) == {n \in names : ~agents[n].is_active}

\* what the route handlers leave alone
HandlerFrame ==
    /\ ran' = NoRun
    /\ UNCHANGED <<accounts, transactions, market_data, feed, snapshots,
                   notified, seed, run_even_when_market_is_closed>>

\* AgentService.start_all_agents
StartAllAgents ==
    /\ HandlerFrame
    /\ IF ~LoopNeeded(is_running)
       THEN /\ last' = Response("start_all", "", "", 0, 0, "already_running", 0)
            /\ UNCHANGED <<agents, is_running, trading_task, old_tasks, fresh>>
       ELSE /\ CanCreateTask
            /\ is_running' = TRUE
            /\ agents' = [n \in AgentNames |-> [agents[n] EXCEPT !.is_active = TRUE]]
            /\ fresh' = fresh \cup Started(AgentNames)
            /\ trading_task' = NewTask
            /\ old_tasks' = OldTasksAfterCreate
            /\ last' = Response("start_all", "", "", 0, 0, "started", 0)

\* AgentService.stop_all_agents
StopAllAgents ==
    /\ HandlerFrame
    /\ is_running' = FALSE
    /\ agents' = [n \in AgentNames |-> Deactivate(agents[n])]
    /\ trading_task' = Cancel(trading_task)
    /\ fresh' = {}
    /\ UNCHANGED old_tasks
    /\ last' = Response("stop_all", "", "", 0, 0, "stopped", 0)

\* AgentService.start_agent
StartAgent(name) ==
    /\ HandlerFrame
    /\ IF name \notin AgentNames
       THEN /\ last' = Response("start_agent", name, "", 0, 0, "error", 0)
            /\ UNCHANGED <<agents, is_running, trading_task, old_tasks, fresh>>
       ELSE /\ agents' = [agents EXCEPT ![name].is_active = TRUE]
            /\ fresh' = fresh \cup Started({name})
            /\ last' = Response("start_agent", name, "", 0, 0, "started", 0)
            /\ IF LoopNeeded(is_running)
               THEN /\ CanCreateTask
                    /\ is_running' = TRUE
                    /\ trading_task' = NewTask
                    /\ old_tasks' = OldTasksAfterCreate
               ELSE UNCHANGED <<is_running, trading_task, old_tasks>>

\* AgentService.stop_agent
StopAgent(name) ==
    /\ HandlerFrame
    /\ IF name \notin AgentNames
       THEN /\ last' = Response("stop_agent", name, "", 0, 0, "error", 0)
            /\ UNCHANGED <<agents, is_running, trading_task, old_tasks, fresh>>
       ELSE /\ agents' = [agents EXCEPT ![name] = Deactivate(@)]
            /\ last' = Response("stop_agent", name, "", 0, 0, "stopped", 0)
            /\ fresh' = fresh \ {name}
            /\ UNCHANGED old_tasks
            /\ IF \A n \in AgentNames : ~agents'[n].is_active
               THEN /\ is_running' = FALSE
                    /\ trading_task' = Cancel(trading_task)
               ELSE UNCHANGED <<is_running, trading_task>>

\* the first position from pos on in the agents dict whose agent is active,
\* 0 when there is none
NextActive(pos) ==
    LET due == {j \in pos..Len(AgentOrder) : agents[AgentOrder[j]].is_active}
    IN  IF due = {} THEN 0 ELSE CHOOSE j \in due : \A k \in due : j <= k

\* a loop that never pauses for the market
MarketClosedPauseNever(open) == FALSE

\* the loop pauses when the market is closed, unless configured otherwise
MarketClosedPause(open) == ~run_even_when_market_is_closed /\ ~open

\* a task that sleeps through its cancellation
InterruptedNever(task) == FALSE

\* CancelledError is raised in a task at its wake-up when cancel() was called
\* on it while it waited
Interrupted(task) == task.cancelled

\* what is_market_open answered the task at its wake-up: the task asks at the
\* start of a tick only, after the while test, and not when the setting
\* already decides
MarketAsked(task, open) ==
    IF Interrupted(task) \/ task.pc = "agent_sleep" \/ ~is_running
       \/ run_even_when_market_is_closed
    THEN "unasked"
    ELSE IF open THEN "open" ELSE "closed"

\* the agent whose cycle the task runs when it wakes, "" when it runs none: a
\* cancelled task gets CancelledError where it waits; a task that slept
\* between two agents goes on with the for loop; any other passes the while
\* test and the market check first
CycleAgent(task, open) ==
    IF Interrupted(task) THEN ""
    ELSE IF task.pc # "agent_sleep" /\ (~is_running \/ MarketClosedPause(open)) THEN ""
    ELSE LET j == NextActive(IF task.pc = "agent_sleep" THEN task.pos ELSE 1)
         IN  IF j = 0 THEN "" ELSE AgentOrder[j]

\* the position in the agents dict after the agent name
PositionAfter(name) == 1 + CHOOSE j \in 1..Len(AgentOrder) : AgentOrder[j] = name

\* the task as its wake-up leaves it: ended by the cancellation (the handler
\* of CancelledError breaks out of the loop) or by the while test, asleep for
\* the closed market, asleep after the for loop, asleep in the handler of an
\* exception that left a cycle, or asleep after a cycle
TaskAfter(task, open, fault) ==
    LET name == CycleAgent(task, open)
    IN  IF Interrupted(task) THEN DoneTask
        ELSE IF task.pc # "agent_sleep" /\ ~is_running THEN DoneTask
        ELSE IF task.pc # "agent_sleep" /\ MarketClosedPause(open)
        THEN Task("closed_sleep", 0, FALSE)
        ELSE IF name = "" THEN Task("tick_sleep", 0, FALSE)
        ELSE IF CycleRaises(fault) THEN Task("error_sleep", 0, FALSE)
        ELSE Task("agent_sleep", PositionAfter(name), FALSE)

\* AgentService._trading_loop from one suspension of the task to the next, or
\* to its end: what it does to everything but the task itself
Resume(task, open, fault, action, symbol, quantity, rnd, rnds) ==
    LET name == CycleAgent(task, open)
    IN  IF name = ""
        THEN /\ ran' = [by |-> "loop", cancelled |-> task.cancelled,
                        market |-> MarketAsked(task, open), agent |-> "",
                        mode |-> "", outcome |-> ""]
             /\ last' = Response("loop", "", "", 0, 0, "ok", 0)
             /\ UNCHANGED <<accounts, transactions, market_data, feed, snapshots,
                            notified, seed, agents, fresh>>
        ELSE /\ ExecuteTradingCycle(name, fault, action, symbol, quantity, rnd, rnds)
             /\ ran' = [by |-> "loop", cancelled |-> task.cancelled,
                        market |-> MarketAsked(task, open), agent |-> name,
                        mode |-> Mode(agents[name]),
                        outcome |-> Outcome(name, fault, action, symbol)]

\* the event loop wakes the task trading_task refers to
ResumeLoop(open, fault, action, symbol, quantity, rnd, rnds) ==
    /\ Live(trading_task)
    /\ Resume(trading_task, open, fault, action, symbol, quantity,
              rnd, rnds)
    /\ trading_task' = TaskAfter(trading_task, open, fault)
    /\ UNCHANGED <<is_running, old_tasks, run_even_when_market_is_closed>>

\* the event loop wakes an earlier task
ResumeOldTask(i, open, fault, action, symbol, quantity, rnd, rnds) ==
    /\ i \in 1..Len(old_tasks)
    /\ Resume(old_tasks[i], open, fault, action, symbol, quantity, rnd, rnds)
    /\ old_tasks' = LET nt == TaskAfter(old_tasks[i], open, fault)
                    IN  IF Live(nt)
                        THEN [old_tasks EXCEPT ![i] = nt]
                        ELSE SubSeq(old_tasks, 1, i - 1)
                             \o SubSeq(old_tasks, i + 1, Len(old_tasks))
    /\ UNCHANGED <<is_running, trading_task, run_even_when_market_is_closed>>

\* a cycle invoked directly on an agent
InvokeCycle(name, fault, action, symbol, quantity, rnd, rnds) ==
    /\ ExecuteTradingCycle(name, fault, action, symbol, quantity, rnd, rnds)
    /\ ran' = [by |-> "call", cancelled |-> FALSE, market |-> "unasked",
               agent |-> name,
               mode |-> Mode(agents[name]),
               outcome |-> IF ~agents[name].is_active THEN "inactive"
                           ELSE Outcome(name, fault, action, symbol)]
    /\ UNCHANGED <<is_running, trading_task, old_tasks,
                   run_even_when_market_is_closed>>

\* -------------------------------------------------------------- behaviours
\* a trade request drawn from the given input sets
TradeSteps(names, symbols, quantities, resps, faults) ==
    \/ \E name \in names, symbol \in symbols, quantity \in quantities,
          resp \in resps, rnd \in RandPrices, rnds \in ValuationDraws,
          fault \in faults :
            ExecuteBuyOrder(name, symbol, quantity, resp, rnd, rnds, fault)
    \/ \E name \in names, symbol \in symbols, quantity \in quantities,
          resp \in resps, rnd \in RandPrices, rnds \in ValuationDraws,
          fault \in faults :
            ExecuteSellOrder(name, symbol, quantity, resp, rnd, rnds, fault)

\* the state after DatabaseManager.create_default_data created the accounts
\* names, under a feed configuration of cfgs with MarketData rows of mds and a
\* setting of overrides, the agent service just constructed
InitAccounts(names, cfgs, mds, overrides) ==
    /\ accounts = [n \in names |-> NewAccount(initial_balance)]
    /\ transactions = <<>>
    /\ snapshots = <<>>
    /\ notified = TRUE
    /\ market_data \in mds
    /\ feed \in cfgs
    /\ seed = [n \in names |-> initial_balance]
    /\ last = Response("init", "", "", 0, 0, "ok", 0)
    /\ agents = [n \in AgentNames |-> TradingAgent]
    /\ is_running = FALSE
    /\ trading_task = NoTask
    /\ old_tasks = <<>>
    /\ ran = NoRun
    /\ fresh = {}
    /\ run_even_when_market_is_closed \in overrides

InitWith(cfgs, mds) == InitAccounts(DefaultAccounts, cfgs, mds, DefaultOverride)

\* The ledger of a default account under the default configuration (no feed
\* key): any quantity, prices from the random fallback or from rows that an
\* earlier run cached.
Init == InitWith({"none"}, {EmptyDict, FeedDaily})

Next ==
    \/ TradeSteps(DefaultAccounts \cup UnknownAccounts, LedgerSymbols, Quantities,
                  {FeedDown}, NoFault)
    \/ \E name \in DefaultAccounts \cup UnknownAccounts : ResetAccount(name)
    \/ ExpireMarketData

Spec == Init /\ [][Next]_vars

\* An account created with a chosen initial balance, beside the default one.
InitFunds == InitWith({"none"}, {EmptyDict})

NextFunds ==
    \/ TradeSteps(DefaultAccounts \cup CustomAccounts, FundsSymbols, FundsQuantities,
                  {FeedDown}, NoFault)
    \/ \E name \in DefaultAccounts \cup CustomAccounts, balance \in CreateBalances :
            CreateAccount(name, balance)
    \/ \E name \in CustomAccounts : ResetAccount(name)

SpecFunds == InitFunds /\ [][NextFunds]_vars

\* The price source under every feed configuration, with unit orders on the
\* default account.
InitFeed == InitWith(FeedConfigs, {EmptyDict, FeedDaily})

NextFeed ==
    \/ TradeSteps(DefaultAccounts, Symbols, {1}, FeedResponses, NoFault)
    \/ ExpireMarketData

SpecFeed == InitFeed /\ [][NextFeed]_vars

\* The valuation history of one account row: the k-th call of
\* update_portfolio_value passes the value of k dollars.
InitHistory == InitWith({"none"}, {EmptyDict})

NextHistory ==
    \E name \in DefaultAccounts :
        /\ accounts[name].total_portfolio_value < MaxUpdates * Scale
        /\ UpdatePortfolioValue(name, accounts[name].total_portfolio_value + Scale)

SpecHistory == InitHistory /\ [][NextHistory]_vars

\* Snapshots of an account created with 501 dollars, between its trades and
\* resets.
InitSnapshot == InitWith({"none"}, {EmptyDict})

NextSnapshot ==
    \/ TradeSteps(CustomAccounts, FundsSymbols, FundsQuantities, {FeedDown}, NoFault)
    \/ \E name \in CustomAccounts, balance \in SnapshotBalances :
            CreateAccount(name, balance)
    \/ \E name \in CustomAccounts, market_prices \in SnapshotPrices :
            CreatePortfolioSnapshot(name, market_prices)
    \/ \E name \in CustomAccounts : ResetAccount(name)

SpecSnapshot == InitSnapshot /\ [][NextSnapshot]_vars

\* Orders on the default account while steps after the ledger commit fail.
InitFaults == InitWith({"none"}, {EmptyDict})

NextFaults ==
    TradeSteps(DefaultAccounts, LedgerSymbols, FaultQuantities, {FeedDown},
               PostCommitFaults)

SpecFaults == InitFaults /\ [][NextFaults]_vars

\* Valuations of the default account at prices the caller passes, between its
\* trades.
NextValuation ==
    \/ TradeSteps(DefaultAccounts, LedgerSymbols, FaultQuantities, {FeedDown}, NoFault)
    \/ \E name \in DefaultAccounts, market_prices \in SnapshotPrices :
            CalculatePortfolioValue(name, market_prices)

SpecValuation == InitFaults /\ [][NextValuation]_vars

\* The agent service: its four route handlers and the event loop waking the
\* loop tasks, over the accounts of the agents.
InitAgents == InitAccounts(AgentNames, {"none"}, {EmptyDict}, DefaultOverride)

LoopSteps(opens, faults) ==
    \/ \E open \in opens, fault \in faults, action \in AgentActions,
          symbol \in AgentSymbols, quantity \in AgentQuantities,
          rnd \in RandPrices, rnds \in ValuationDraws :
            ResumeLoop(open, fault, action, symbol, quantity, rnd, rnds)
    \/ \E i \in 1..MaxOldTasks + 1 :
       \E open \in opens, fault \in faults, action \in AgentActions,
          symbol \in AgentSymbols, quantity \in AgentQuantities,
          rnd \in RandPrices, rnds \in ValuationDraws :
            ResumeOldTask(i, open, fault, action, symbol, quantity, rnd, rnds)

HandlerSteps(names) ==
    \/ StartAllAgents
    \/ StopAllAgents
    \/ \E name \in names : StartAgent(name)
    \/ \E name \in names : StopAgent(name)

NextAgents == HandlerSteps(AgentNames) \/ LoopSteps(OpenHours, CycleFaults)

SpecAgents == InitAgents /\ [][NextAgents]_vars

\* The same under fair scheduling of the loop tasks: the event loop wakes a
\* sleeping task when its sleep is over.
FairSpecAgents == SpecAgents /\ WF_vars(LoopSteps(OpenHours, CycleFaults))

\* The agent service at any hour, the market open or closed, under either
\* value of the setting, its cycles not failing.
InitMarket == InitAccounts(AgentNames, {"none"}, {EmptyDict}, Overrides)

NextMarket == HandlerSteps(AgentNames) \/ LoopSteps(MarketHours, NoFault)

SpecMarket == InitMarket /\ [][NextMarket]_vars

RECURSIVE BoughtPositions(_, _, _)
\* the Account row of name and the transactions table after accepted buy
\* orders of quantity shares of each of the first k symbols, on a fresh account
BoughtPositions(name, k, quantity) ==
    IF k = 0 THEN [account |-> NewAccount(initial_balance), txs |-> <<>>]
    ELSE LET before == BoughtPositions(name, k - 1, quantity)
             r == buy_shares(before.account, before.txs, name, PositionOrder[k],
                             quantity, RandHi)
             market_prices == CHOOSE rnds \in PositionDraws : TRUE
             current_value == calculate_portfolio_value(r.account, market_prices)
         IN  [account |-> update_portfolio_metrics(r.account, current_value, r.txs, name),
              txs |-> r.txs]

\* the state after orders of the trade route bought, for the account of the
\* first agent, a number in counts of positions of a quantity in quantities
\* each, the agent service just constructed
InitPositions(counts, quantities, cfgs) ==
    \E k \in counts, quantity \in quantities :
        /\ accounts = [n \in AgentNames |->
                           IF n = AgentOrder[1]
                           THEN BoughtPositions(n, k, quantity).account
                           ELSE NewAccount(initial_balance)]
        /\ transactions = BoughtPositions(AgentOrder[1], k, quantity).txs
        /\ snapshots = <<>>
        /\ notified = TRUE
        /\ market_data = EmptyDict
        /\ feed \in cfgs
        /\ seed = [n \in AgentNames |-> initial_balance]
        /\ last = Response("init", "", "", 0, 0, "ok", 0)
        /\ agents = [n \in AgentNames |-> TradingAgent]
        /\ is_running = FALSE
        /\ trading_task = NoTask
        /\ old_tasks = <<>>
        /\ ran = NoRun
        /\ fresh = {}
        /\ run_even_when_market_is_closed \in DefaultOverride

\* The first agent, whose account holds 5, 6 or 7 positions of one share,
\* started, stopped and its cycle called, while steps after the ledger commit
\* of its orders fail or the feed answers no price.
InitRebalance == InitPositions(PositionCounts, {1}, {"none", "eod"})

NextRebalance ==
    \/ HandlerSteps({AgentOrder[1]})
    \/ \E name \in {AgentOrder[1]}, fault \in PostCommitFaults, action \in AgentActions,
          symbol \in PositionSymbols, quantity \in AgentQuantities,
          rnd \in RandPrices, rnds \in PositionDraws :
            InvokeCycle(name, fault, action, symbol, quantity, rnd, rnds)

SpecRebalance == InitRebalance /\ [][NextRebalance]_vars

\* The first agent as the only writer of its account, which is fresh or holds
\* one position that took most of its cash, its cycles drawing any quantity.
InitOrders == InitPositions({0, 1}, SeedQuantities, {"none"})

NextOrders ==
    \/ HandlerSteps({AgentOrder[1]})
    \/ \E name \in {AgentOrder[1]}, action \in AgentActions, symbol \in AgentSymbols,
          quantity \in OrderQuantities, rnd \in RandPrices, rnds \in PositionDraws :
            InvokeCycle(name, "none", action, symbol, quantity, rnd, rnds)

SpecOrders == InitOrders /\ [][NextOrders]_vars

\* The cycle of an agent called on its own, between starts and stops, with
\* and without a price feed that answers 0.
InitCycle == InitAccounts(AgentNames, {"none", "eod"}, {EmptyDict}, DefaultOverride)

NextCycle ==
    \/ HandlerSteps(AgentRequestNames)
    \/ \E name \in AgentNames, fault \in CycleFaults, action \in AgentActions,
          symbol \in AgentSymbols, quantity \in AgentQuantities,
          rnd \in RandPrices, rnds \in ValuationDraws :
            InvokeCycle(name, fault, action, symbol, quantity, rnd, rnds)

SpecCycle == InitCycle /\ [][NextCycle]_vars

\* ------------------------------------------------------------------ claims
\* the step just taken was a trade of kind op that got as far as the ledger
TradeStep(op) ==
    /\ last'.op = op
    /\ last'.status \notin {"AccountNotFound"}

\* every holding other than that of ticker s is the same before and after
OtherHoldingsUnchanged(a, s) ==
    \A t \in Tickers \ {s} :
        /\ (t \in DOMAIN accounts'[a].holdings) = (t \in DOMAIN accounts[a].holdings)
        /\ Get(accounts'[a].holdings, t, 0) = Get(accounts[a].holdings, t, 0)

\* C1: every successful buy at market price p > 0 of quantity q takes exactly
\* p * (1 + spread) * q off the balance, adds exactly q to the holding of the
\* upper-cased symbol, leaves every other holding alone and returns that cost.
C1_BuyDebitsExactly ==
    [][(TradeStep("buy") /\ last'.status = "ok") =>
        LET a == last'.account
            s == Upper(last'.symbol)
            q == last'.quantity
            p == last'.market_price
            cost == p * (Scale + spread) * q
        IN  /\ p > 0
            /\ accounts'[a].balance = accounts[a].balance - cost
            /\ Get(accounts'[a].holdings, s, 0) = Get(accounts[a].holdings, s, 0) + q
            /\ OtherHoldingsUnchanged(a, s)
            /\ last'.total = cost]_vars

\* a buy of a positive quantity under a lower-case symbol succeeded and the
\* shares are in the holdings under the upper-case ticker
C1_Witness ==
    /\ last.op = "buy" /\ last.status = "ok"
    /\ last.symbol = "aapl" /\ last.quantity > 0
    /\ "AAPL" \in DOMAIN accounts[last.account].holdings
    /\ accounts[last.account].holdings["AAPL"] >= last.quantity
    /\ accounts[last.account].balance < initial_balance

\* C2: every successful sell at market price p > 0 of quantity q adds exactly
\* p * (1 - spread) * q to the balance, takes exactly q off the holding of the
\* symbol (the entry is removed when it reaches 0) and leaves every other
\* holding alone.
C2_SellCreditsExactly ==
    [][(TradeStep("sell") /\ last'.status = "ok") =>
        LET a == last'.account
            s == Upper(last'.symbol)
            q == last'.quantity
            p == last'.market_price
            proceeds == p * (Scale - spread) * q
            left == Get(accounts[a].holdings, s, 0) - q
        IN  /\ p > 0
            /\ accounts'[a].balance = accounts[a].balance + proceeds
            /\ Get(accounts'[a].holdings, s, 0) = left
            /\ (left = 0) => (s \notin DOMAIN accounts'[a].holdings)
            /\ OtherHoldingsUnchanged(a, s)]_vars

\* a sell of a positive quantity succeeded, it emptied the holding of its
\* symbol, whose entry is gone, and another holding is still there
C2_Witness ==
    /\ last.op = "sell" /\ last.status = "ok" /\ last.quantity > 0
    /\ Upper(last.symbol) \notin DOMAIN accounts[last.account].holdings
    /\ DOMAIN accounts[last.account].holdings # {}
\* C3: a buy or sell whose quantity is not greater than 0 signals
\* InvalidQuantity and leaves balance, holdings and the transaction log unchanged.
C3_RejectsNonPositiveQuantity ==
    [][((TradeStep("buy") \/ TradeStep("sell")) /\ last'.quantity <= 0) =>
        /\ last'.status = "InvalidQuantity"
        /\ UNCHANGED <<accounts, transactions>>]_vars

\* C4: the cash balance of every account is non-negative in every reachable state.
C4_BalanceNonNegative ==
    \A a \in DOMAIN accounts : accounts[a].balance >= 0

\* C5: the holdings of every account map each present symbol to a strictly
\* positive quantity.
C5_HoldingsPositive ==
    \A a \in DOMAIN accounts :
        \A s \in DOMAIN accounts[a].holdings : accounts[a].holdings[s] > 0

\* C6: a buy whose total cost p * (1 + spread) * q exceeds the balance signals
\* InsufficientFunds and leaves balance, holdings and the transaction log as
\* they were; a buy whose total cost equals the balance is accepted.
C6_InsufficientFundsRejected ==
    [][(TradeStep("buy") /\ last'.status # "InvalidPrice") =>
        LET a == last'.account
            cost == last'.market_price * (Scale + spread) * last'.quantity
        IN  /\ (cost > accounts[a].balance) =>
                    /\ last'.status = "InsufficientFunds"
                    /\ UNCHANGED <<accounts, transactions>>
            /\ (cost = accounts[a].balance) =>
                    /\ last'.status = "ok"
                    /\ accounts'[a].balance = 0]_vars

\* a buy was turned away for lack of funds on an account whose whole initial
\* balance an earlier, accepted buy had cost
C6_Witness ==
    /\ last.op = "buy" /\ last.status = "InsufficientFunds"
    /\ last.quantity > 0
    /\ accounts[last.account].balance = 0
    /\ \E i \in 1..Len(transactions) :
        /\ transactions[i].account = last.account
        /\ transactions[i].transaction_type = "buy"
        /\ transactions[i].total_value = seed[last.account]

\* C7: a sell of more shares than are held of the symbol (also of a symbol
\* not held) signals InsufficientHoldings and leaves balance, holdings and
\* the transaction log as they were.
C7_OversellRejected ==
    [][(TradeStep("sell") /\ last'.status # "InvalidPrice"
        /\ last'.quantity > Get(accounts[last'.account].holdings, Upper(last'.symbol), 0)) =>
            /\ last'.status = "InsufficientHoldings"
            /\ UNCHANGED <<accounts, transactions>>]_vars

\* a sell of more shares than the account holds of a symbol it does hold was
\* turned away
C7_Witness ==
    /\ last.op = "sell" /\ last.status = "InsufficientHoldings"
    /\ Get(accounts[last.account].holdings, Upper(last.symbol), 0) > 0
    /\ last.quantity > Get(accounts[last.account].holdings, Upper(last.symbol), 0)
    /\ Len(transactions) > 0

\* C8: when the price source returns a price <= 0, execute_buy_order and
\* execute_sell_order fail with InvalidPrice and balance, holdings and the
\* transaction log are unchanged.
C8_InvalidPriceRejected ==
    [][((TradeStep("buy") \/ TradeStep("sell")) /\ last'.market_price <= 0) =>
        /\ last'.status = "InvalidPrice"
        /\ UNCHANGED <<accounts, transactions>>]_vars

\* a sell of shares the account holds failed with InvalidPrice at a price <= 0
C8_Witness ==
    /\ last.op = "sell" /\ last.status = "InvalidPrice"
    /\ last.market_price <= 0
    /\ Get(accounts[last.account].holdings, Upper(last.symbol), 0) >= last.quantity
    /\ last.quantity > 0

\* C9: the price source always hands the trade executor a price > 0.
C9_PriceAlwaysPositive ==
    (last.op \in {"buy", "sell"} /\ last.status # "AccountNotFound") =>
        last.market_price > 0

RECURSIVE SumQuantity(_, _, _)
\* the sum of the signed quantities of the transactions of account a in ticker s
SumQuantity(txs, a, s) ==
    IF txs = <<>> THEN 0
    ELSE (IF Head(txs).account = a /\ Head(txs).symbol = s
          THEN Head(txs).quantity ELSE 0)
         + SumQuantity(Tail(txs), a, s)

RECURSIVE SumValue(_, _, _)
\* the sum of the total values of the transactions of account a of one type
SumValue(txs, a, type) ==
    IF txs = <<>> THEN 0
    ELSE (IF Head(txs).account = a /\ Head(txs).transaction_type = type
          THEN Head(txs).total_value ELSE 0)
         + SumValue(Tail(txs), a, type)

\* C10: ledger and transaction log agree: for every account and symbol the
\* holding equals the sum of the signed quantities of the account's
\* transactions in the symbol since the last reset (absent when that sum is
\* 0), and the balance equals the initial balance minus the total value of
\* the buys plus the total value of the sells.
C10_LedgerMatchesLog ==
    \A a \in DOMAIN accounts :
        /\ \A s \in Tickers :
            LET sum == SumQuantity(transactions, a, s)
            IN  IF sum = 0
                THEN s \notin DOMAIN accounts[a].holdings
                ELSE /\ s \in DOMAIN accounts[a].holdings
                     /\ accounts[a].holdings[s] = sum
        /\ DOMAIN accounts[a].holdings \subseteq Tickers
        /\ accounts[a].balance =
               seed[a] - SumValue(transactions, a, "buy")
                       + SumValue(transactions, a, "sell")

\* an account with a buy and a sell on record since its last reset that
\* still holds shares, after an earlier reset of some account
C10_Witness ==
    \E a \in DOMAIN accounts :
        /\ SumValue(transactions, a, "buy") > 0
        /\ SumValue(transactions, a, "sell") > 0
        /\ DOMAIN accounts[a].holdings # {}
        /\ accounts[a].balance # seed[a]

RECURSIVE ValueOfHoldings(_, _, _)
\* the sum over the symbols todo of holdings[s] * prices[s], a symbol without
\* a price counting 0
ValueOfHoldings(holdings, prices, todo) ==
    IF todo = {} THEN 0
    ELSE LET s == CHOOSE x \in todo : TRUE
         IN  (IF s \in DOMAIN prices THEN holdings[s] * prices[s] * Scale ELSE 0)
             + ValueOfHoldings(holdings, prices, todo \ {s})

\* C11: right after the metrics update of every successful buy and sell the
\* stored total_portfolio_value equals balance + the sum over the held symbols
\* of holdings[s] * price[s] for the prices that valuation fetched, and right
\* after a reset it equals the initial balance, the holdings being empty.
C11_ValuationIdentity ==
    [][
        /\ ((TradeStep("buy") \/ TradeStep("sell")) /\ last'.status = "ok") =>
            LET a == accounts'[last'.account]
            IN  \E resp \in FeedResponses, rnds \in ValuationDraws :
                    a.total_portfolio_value =
                        a.balance
                        + ValueOfHoldings(a.holdings,
                              ValuationPrices(last'.op, a.holdings, market_data',
                                              resp, rnds),
                              DOMAIN a.holdings)
        /\ (last'.op = "reset" /\ last'.status = "ok") =>
            LET a == accounts'[last'.account]
            IN  /\ a.total_portfolio_value = initial_balance
                /\ a.total_portfolio_value =
                       a.balance + ValueOfHoldings(a.holdings, EmptyDict,
                                                   DOMAIN a.holdings)
    ]_vars

\* a sell succeeded that left shares of two tickers at different prices in the
\* account, whose stored valuation is above its cash
C11_Witness ==
    /\ last.op = "sell" /\ last.status = "ok" /\ last.quantity > 0
    /\ Cardinality(DOMAIN accounts[last.account].holdings) = 2
    /\ accounts[last.account].total_portfolio_value > accounts[last.account].balance

\* C12: the valuation history never holds more than 1000 entries and consists
\* of the most recent entries in insertion order: after n calls of
\* update_portfolio_value (the k-th passing k dollars) its length is
\* min(n, 1000) and its i-th entry is the value of call n - length + i, so
\* that after the 1001st call the entry of the first call is gone.
C12_HistoryKeepsLast1000 ==
    \A a \in DOMAIN accounts :
        LET h == accounts[a].portfolio_value_history
            n == accounts[a].total_portfolio_value \div Scale
        IN  /\ Len(h) <= 1000
            /\ Len(h) = (IF n < 1000 THEN n ELSE 1000)
            /\ \A i \in 1..Len(h) : h[i] = (n - Len(h) + i) * Scale

\* the 1001st call has been made: the history holds 1000 entries, the oldest
\* of them the value of the second call
C12_Witness ==
    \E a \in DOMAIN accounts :
        /\ accounts[a].total_portfolio_value = 1001 * Scale
        /\ Len(accounts[a].portfolio_value_history) = 1000
        /\ accounts[a].portfolio_value_history[1] = 2 * Scale

\* C13: from any reachable account state, reset_account leaves the account
\* without transactions and without stored snapshots, a snapshot of the reset
\* account at any prices has cash = initial_balance, holdings = {} and
\* invested_value = 0, and so has the snapshot stored by a
\* create_portfolio_snapshot that directly follows the reset.
C13_ResetThenSnapshot ==
    [][
        /\ (last'.op = "reset" /\ last'.status = "ok") =>
            LET a == last'.account
            IN  /\ \A i \in 1..Len(transactions') : transactions'[i].account # a
                /\ \A i \in 1..Len(snapshots') : snapshots'[i].account # a
                /\ \A market_prices \in SnapshotPrices :
                       LET snap == create_from_account(a, accounts'[a], market_prices)
                       IN  /\ snap.cash_balance = initial_balance
                           /\ snap.holdings = EmptyDict
                           /\ snap.invested_value = 0
        /\ (/\ last.op = "reset" /\ last.status = "ok"
            /\ last'.op = "snapshot" /\ last'.account = last.account) =>
            LET snap == snapshots'[Len(snapshots')]
            IN  /\ snap.account = last.account
                /\ snap.cash_balance = initial_balance
                /\ snap.holdings = EmptyDict
                /\ snap.invested_value = 0
                /\ snap.total_value = initial_balance
    ]_vars

\* the account created with 501 dollars was reset and then snapshotted: the
\* only stored snapshot shows the initial balance of 10000 dollars as cash and
\* no holdings, and no transaction is on record
C13_Witness ==
    /\ last.op = "snapshot" /\ last.account \in CustomAccounts
    /\ Len(snapshots) = 1
    /\ snapshots[1].cash_balance = initial_balance
    /\ snapshots[1].cash_balance # 501 * Scale
    /\ snapshots[1].holdings = EmptyDict
    /\ transactions = <<>>

\* C20: a failure of a step after the ledger commit of a buy or sell (the
\* valuation refresh, the notification, the success log) never undoes the
\* trade: the balance change, the holdings change and the transaction record
\* of the trade are in the state the handler leaves.
C20_PostCommitFailureKeepsTrade ==
    [][((TradeStep("buy") \/ TradeStep("sell"))
        /\ (last'.status = "PostCommitError" \/ (last'.status = "ok" /\ ~notified'))) =>
        LET a == last'.account
            s == Upper(last'.symbol)
            q == last'.quantity
            p == last'.market_price
            buy == last'.op = "buy"
            unit == IF buy THEN p * (Scale + spread) ELSE p * (Scale - spread)
            n == Len(transactions')
        IN  /\ accounts'[a].balance =
                   accounts[a].balance + (IF buy THEN 0 - unit * q ELSE unit * q)
            /\ Get(accounts'[a].holdings, s, 0) =
                   Get(accounts[a].holdings, s, 0) + (IF buy THEN q ELSE 0 - q)
            /\ n = Len(transactions) + 1
            /\ SubSeq(transactions', 1, n - 1) = transactions
            /\ transactions'[n] =
                   Transaction(a, s, IF buy THEN q ELSE 0 - q, unit,
                               last'.op, unit * q)]_vars

\* a sell failed after its ledger commit, an earlier trade's notification
\* having failed too, and its transaction is the last of the log
C20_Witness ==
    /\ last.op = "sell" /\ last.status = "PostCommitError"
    /\ ~notified
    /\ Len(transactions) >= 2
    /\ transactions[Len(transactions)].transaction_type = "sell"
    /\ transactions[Len(transactions)].account = last.account

\* C14: whenever an inactive agent is started, by start_agent or
\* start_all_agents, the start leaves it active in trading mode, and the first
\* cycle the loop runs for it after the start is a trading cycle, whatever
\* cycles and stops came before.
C14_StartMeansTrading ==
    [][
        /\ \A n \in AgentNames :
            (n \in fresh' /\ n \notin fresh) =>
                (agents'[n].is_active /\ Mode(agents'[n]) = "trading")
        /\ (ran'.by = "loop" /\ ran'.agent \in fresh) => ran'.mode = "trading"
    ]_vars

\* the transactions of account n, in order
TransactionsOf(txs, n) == SelectSeq(txs, LAMBDA t : t.account = n)

\* C15: a cycle that an active agent completes (also one that decided to hold,
\* found nothing to trade or had its order rejected) toggles the mode of the
\* agent exactly once and no other step changes the mode, so that consecutive
\* completed cycles of an agent alternate between trading and rebalancing; a
\* cycle invoked on an inactive agent changes neither the mode nor the ledger.
C15_CompletedCycleToggles ==
    [][
        /\ \A n \in AgentNames :
            IF ran'.agent = n /\ ran'.outcome = "completed"
            THEN /\ agents[n].is_active
                 /\ agents'[n].do_trade = ~agents[n].do_trade
                 /\ ran'.mode = Mode(agents[n])
                 /\ Mode(agents'[n]) # ran'.mode
            ELSE agents'[n].do_trade = agents[n].do_trade
        /\ (ran'.agent # "" /\ ~agents[ran'.agent].is_active) =>
                /\ ran'.outcome = "inactive"
                /\ UNCHANGED <<accounts, transactions, agents>>
    ]_vars

\* a trading cycle whose buy order was rejected for its price completed and
\* left the agent, which had completed a cycle before, in rebalancing mode
C15_Witness ==
    /\ ran.by = "call" /\ ran.outcome = "completed" /\ ran.mode = "trading"
    /\ last.op = "buy" /\ last.status = "InvalidPrice"
    /\ last.account = ran.agent
    /\ ~agents[ran.agent].do_trade
    /\ agents[ran.agent].is_active

\* C16: a stop leaves the agent inactive, whatever its mode, and while an
\* agent is inactive (from the return of stop_agent or stop_all_agents to its
\* next start) no step of a loop task runs a cycle for it or changes its
\* account or its transactions, also when the stop came between two cycles of
\* a tick.
C16_StoppedAgentIsLeftAlone ==
    [][
        /\ (last'.op = "stop_agent" /\ last'.status = "stopped") =>
                ~agents'[last'.account].is_active
        /\ (last'.op = "stop_all") => \A n \in AgentNames : ~agents'[n].is_active
        /\ (ran'.by = "loop") =>
                \A n \in AgentNames :
                    ~agents[n].is_active =>
                        /\ ran'.agent # n
                        /\ accounts'[n] = accounts[n]
                        /\ TransactionsOf(transactions', n) = TransactionsOf(transactions, n)
                        /\ agents'[n] = agents[n]
    ]_vars

\* stop_agent has just stopped the second agent, which was in rebalancing
\* mode, while the loop sleeps between the cycle of the first agent and its own
C16_Witness ==
    /\ last.op = "stop_agent" /\ last.status = "stopped"
    /\ last.account = AgentOrder[2]
    /\ ~agents[AgentOrder[2]].is_active /\ ~agents[AgentOrder[2]].do_trade
    /\ agents[AgentOrder[1]].is_active
    /\ is_running
    /\ trading_task = Task("agent_sleep", 2, FALSE)

\* C17: a failure during the cycle of one account (the account lookup, an
\* error in the cycle, an error in its error logging) stays inside the cycle:
\* no exception leaves it, and the loop goes on to the delay between agents and
\* the cycles of the remaining agents of the tick.
C17_CycleFailureContained ==
    [][(ran'.by = "loop" /\ ran'.agent # "") =>
        /\ ran'.outcome # "raised"
        /\ trading_task'.pc # "error_sleep"
        /\ \A i \in 1..Len(old_tasks') : old_tasks'[i].pc # "error_sleep"]_vars

\* the tasks that are neither finished nor cancelled
Uncancelled ==
    (IF Live(trading_task) /\ ~trading_task.cancelled THEN 1 ELSE 0)
    + Cardinality({i \in 1..Len(old_tasks) : ~old_tasks[i].cancelled})

\* C18: cancelling the loop takes effect at the sleep where the task waits: a
\* stop changes nothing of the ledger, the wake-up of a cancelled task runs no
\* cycle, changes no account, transaction or agent and ends the task, and no
\* step changes a balance without changing the holdings of that account and
\* appending its transaction of that value.
C18_CancellationAtSleepOnly ==
    [][
        /\ (last'.op \in {"stop_all", "stop_agent"}) =>
                UNCHANGED <<accounts, transactions>>
        /\ (ran'.by = "loop" /\ ran'.cancelled) =>
                /\ ran'.agent = ""
                /\ UNCHANGED <<accounts, transactions, agents>>
                /\ ~Live(trading_task') \/ trading_task' = trading_task
                /\ Len(old_tasks') < Len(old_tasks) \/ old_tasks' = old_tasks
        /\ \A n \in DOMAIN accounts :
            accounts'[n].balance # accounts[n].balance =>
                LET k == Len(transactions')
                    delta == accounts'[n].balance - accounts[n].balance
                IN  /\ accounts'[n].holdings # accounts[n].holdings
                    /\ k = Len(transactions) + 1
                    /\ transactions'[k].account = n
                    /\ transactions'[k].total_value
                           = (IF delta < 0 THEN 0 - delta ELSE delta)
    ]_vars

\* stop_all_agents cancelled the loop after trades of both agents; the task
\* woke up cancelled and ended, and nothing runs any more
C18_Witness ==
    /\ ran.by = "loop" /\ ran.cancelled /\ ran.agent = ""
    /\ trading_task = DoneTask
    /\ ~is_running
    /\ \A n \in AgentNames : ~agents[n].is_active
    /\ \A n \in AgentNames : TransactionsOf(transactions, n) # <<>>

\* C19: after any sequence and interleaving of start_all_agents,
\* stop_all_agents, start_agent and stop_agent calls and wake-ups of the loop
\* tasks, at most one loop task exists that is neither finished nor cancelled,
\* and such a task exists exactly while is_running is set.
C19_OneLoopTask ==
    /\ Uncancelled <= 1
    /\ is_running <=> Uncancelled = 1

\* a new loop sleeps between two cycles of a tick while the task of an
\* earlier loop, cancelled, has not woken up yet
C19_Witness ==
    /\ Len(old_tasks) >= 1
    /\ trading_task = Task("agent_sleep", 2, FALSE)
    /\ \E i \in 1..Len(old_tasks) : old_tasks[i].pc = "agent_sleep"
    /\ Uncancelled = 1

\* C21: the transaction log is an append-only record of the executed trades:
\* every successful buy of q shares appends exactly one transaction of
\* positive quantity q and every successful sell exactly one of negative
\* quantity -q, each at the price after the spread with total value = price *
\* |quantity|; a rejected trade appends none; and no step but a reset modifies
\* or removes a transaction.
C21_TransactionLogAppendOnly ==
    [][
        /\ ((TradeStep("buy") \/ TradeStep("sell")) /\ last'.status = "ok") =>
            LET buy == last'.op = "buy"
                q == last'.quantity
                p == last'.market_price
                unit == IF buy THEN p * (Scale + spread) ELSE p * (Scale - spread)
                n == Len(transactions')
                t == transactions'[n]
            IN  /\ n = Len(transactions) + 1
                /\ SubSeq(transactions', 1, n - 1) = transactions
                /\ t.account = last'.account
                /\ t.symbol = Upper(last'.symbol)
                /\ t.transaction_type = last'.op
                /\ IF buy THEN t.quantity = q /\ t.quantity > 0
                          ELSE t.quantity = 0 - q /\ t.quantity < 0
                /\ t.price = unit
                /\ t.total_value = unit * (IF t.quantity < 0 THEN 0 - t.quantity
                                           ELSE t.quantity)
        /\ ((TradeStep("buy") \/ TradeStep("sell")) /\ last'.status # "ok") =>
                transactions' = transactions
        /\ (last'.op # "reset") =>
                /\ Len(transactions') >= Len(transactions)
                /\ SubSeq(transactions', 1, Len(transactions)) = transactions
    ]_vars

\* whether the fraction w (num over den, den not 0) is the quotient value /
\* total of a total that is not 0: both are 0, or w is value over total itself
IsQuotient(w, value, total) ==
    \/ w.num = 0 /\ value = 0
    \/ w.num = value /\ w.den = total

\* C22: the snapshot of an account at given prices has, for each held symbol,
\* value = quantity * price (price 0 for a symbol missing from the prices) and
\* weight = value / total_value, weight 0 when total_value = 0; invested value
\* = the sum of the values, cash = the balance, total value = cash + invested
\* value; and taking it changes nothing in the account.
C22_SnapshotIsPureBreakdown ==
    [][(last'.op = "snapshot") =>
        LET a == accounts[last'.account]
            snap == snapshots'[Len(snapshots')]
        IN  /\ accounts' = accounts
            /\ transactions' = transactions
            /\ snap.account = last'.account
            /\ \E market_prices \in SnapshotPrices :
                /\ DOMAIN snap.holdings = DOMAIN a.holdings
                /\ \A s \in DOMAIN a.holdings :
                    LET h == snap.holdings[s]
                    IN  /\ h.quantity = a.holdings[s]
                        /\ h.price = (IF s \in DOMAIN market_prices
                                      THEN market_prices[s] ELSE 0)
                        /\ h.value = h.quantity * h.price * Scale
                        /\ IF snap.total_value = 0
                           THEN h.weight.num = 0
                           ELSE IsQuotient(h.weight, h.value, snap.total_value)
                /\ snap.invested_value =
                       ValueOfHoldings(a.holdings, market_prices, DOMAIN a.holdings)
            /\ snap.cash_balance = a.balance
            /\ snap.total_value = snap.cash_balance + snap.invested_value]_vars

\* C23: calculate_portfolio_value is idempotent and deterministic: a call
\* returns balance + the sum of holdings[s] * prices[s] for the prices passed,
\* leaves balance, holdings, valuation history and total_portfolio_value as
\* they were, so that a second call at any prices returns what it would have
\* returned before the first, and two calls in a row at the same prices return
\* the same value.
C23_ValuationIdempotent ==
    [][(last'.op = "value") =>
        LET n == last'.account
            a == accounts[n]
        IN  /\ accounts'[n].balance = a.balance
            /\ accounts'[n].holdings = a.holdings
            /\ accounts'[n].portfolio_value_history = a.portfolio_value_history
            /\ accounts'[n].total_portfolio_value = a.total_portfolio_value
            /\ last'.total = a.balance
                   + ValueOfHoldings(a.holdings, last'.market_prices, DOMAIN a.holdings)
            /\ \A market_prices \in SnapshotPrices :
                   calculate_portfolio_value(accounts'[n], market_prices)
                       = calculate_portfolio_value(a, market_prices)
            /\ (last.op = "value" /\ last.account = n
                /\ last.market_prices = last'.market_prices) =>
                   last'.total = last.total]_vars

\* a valuation of an account holding two tickers was computed at prices other
\* than those of its last trade: the value returned is above the balance and is
\* not the stored total_portfolio_value, which no call has touched
C23_Witness ==
    /\ last.op = "value"
    /\ Cardinality(DOMAIN accounts[last.account].holdings) = 2
    /\ last.total > accounts[last.account].balance
    /\ last.total # accounts[last.account].total_portfolio_value
    /\ Len(accounts[last.account].portfolio_value_history) = Len(transactions)

\* C24: whenever start_all_agents is called, in any state that earlier starts
\* and stops reach, every registered agent is active and the supervising loop
\* is running (a loop task exists that is neither finished nor cancelled) once
\* it returns.
C24_StartAllStartsAll ==
    [][(last'.op = "start_all") =>
        /\ \A n \in AgentNames : agents'[n].is_active
        /\ is_running'
        /\ Live(trading_task') /\ ~trading_task'.cancelled]_vars

\* C28: after any sequence of start_all_agents, stop_all_agents, start_agent
\* and stop_agent calls, is_running is true exactly when at least one agent is
\* active; a call naming an unknown agent returns the error status and changes
\* nothing of the agents, the flag and the loop tasks.
C28_RunningIffSomeAgentActive ==
    /\ [](is_running <=> \E n \in AgentNames : agents[n].is_active)
    /\ [][(last'.op \in {"start_agent", "stop_agent"}
           /\ last'.account \notin AgentNames) =>
            /\ last'.status = "error"
            /\ UNCHANGED <<agents, is_running, trading_task, old_tasks>>]_vars

\* a call naming an unknown agent returned the error status while the loop
\* runs for the second agent alone, the first having been stopped after a cycle
C28_Witness ==
    /\ last.op \in {"start_agent", "stop_agent"}
    /\ last.account \in UnknownAccounts /\ last.status = "error"
    /\ is_running
    /\ ~agents[AgentOrder[1]].is_active /\ ~agents[AgentOrder[1]].do_trade
    /\ agents[AgentOrder[2]].is_active

\* C26: when the market is closed and run_even_when_market_is_closed is not
\* set, the tick a loop task starts runs no cycle and changes no account and
\* no transaction, and the task only sleeps before it asks again; with the
\* setting on, the market is not asked, no task ever pauses for it, and a
\* tick that the running loop starts runs the cycle of the first active agent.
C26_ClosedMarketPauses ==
    [][(ran'.by = "loop") =>
        /\ (ran'.market = "closed") =>
                /\ ~run_even_when_market_is_closed
                /\ ran'.agent = ""
                /\ UNCHANGED <<accounts, transactions, agents>>
                /\ \/ trading_task'.pc = "closed_sleep" /\ old_tasks' = old_tasks
                   \/ /\ trading_task' = trading_task
                      /\ \E i \in 1..Len(old_tasks') : old_tasks'[i].pc = "closed_sleep"
        /\ (ran'.market = "open") => ~run_even_when_market_is_closed
        /\ run_even_when_market_is_closed =>
                /\ ran'.market = "unasked"
                /\ trading_task'.pc # "closed_sleep"
                /\ \A i \in 1..Len(old_tasks') : old_tasks'[i].pc # "closed_sleep"
                /\ (/\ old_tasks = <<>>
                    /\ trading_task.pc # "agent_sleep"
                    /\ ~trading_task.cancelled
                    /\ is_running) =>
                        /\ ran'.agent # ""
                        /\ ran'.agent = AgentOrder[NextActive(1)]
    ]_vars

\* the loop, which ran cycles that traded while the market was open, found
\* the market closed at the start of a tick and sleeps, the agents still active
C26_Witness ==
    /\ ran.by = "loop" /\ ran.market = "closed" /\ ran.agent = ""
    /\ ~run_even_when_market_is_closed
    /\ trading_task = Task("closed_sleep", 0, FALSE)
    /\ is_running
    /\ \A n \in AgentNames : agents[n].is_active
    /\ transactions # <<>>

\* C25: while the loop runs and the market is open, a tick runs the cycles of
\* the agents that are active when the loop reaches them, one each, in the
\* order of the agents dict; hence, under fair scheduling of the loop task, an
\* agent that stays active has a cycle executed again and again.
C25_ActiveAgentsCycleEveryTick ==
    /\ [][(ran'.by = "loop" /\ old_tasks = <<>> /\ ran'.agent # "") =>
            LET j == PositionAfter(ran'.agent) - 1
                start == IF trading_task.pc = "agent_sleep" THEN trading_task.pos ELSE 1
            IN  /\ j >= start
                /\ agents[ran'.agent].is_active
                /\ \A k \in start..(j - 1) : ~agents[AgentOrder[k]].is_active
                /\ (ran'.outcome # "raised") =>
                        trading_task' = Task("agent_sleep", j + 1, FALSE)]_vars
    /\ \A n \in AgentNames :
            []<>(~agents[n].is_active \/ (ran.by = "loop" /\ ran.agent = n))

\* the ledger of account n after a sell of one share of symbol s
SoldOne(n, s) ==
    /\ Get(accounts'[n].holdings, s, 0) = accounts[n].holdings[s] - 1
    /\ accounts'[n].balance > accounts[n].balance
    /\ Len(transactions') = Len(transactions) + 1
    /\ transactions'[Len(transactions')].account = n
    /\ transactions'[Len(transactions')].symbol = s
    /\ transactions'[Len(transactions')].quantity = 0 - 1

\* the balance and holdings of account n and the transaction log are as before
LedgerUntouched(n) ==
    /\ accounts'[n].balance = accounts[n].balance
    /\ accounts'[n].holdings = accounts[n].holdings
    /\ transactions' = transactions

\* a rebalancing cycle of an active agent has just run to its end
RebalancingCycleRan ==
    ran'.agent # "" /\ ran'.mode = "rebalancing" /\ ran'.outcome = "completed"

\* C27 as stated: a rebalancing cycle touches the ledger only when the account
\* holds more than 5 symbols, and then it places a sell of exactly one share
\* of a symbol held; with 5 or fewer the ledger is unchanged; and a
\* rebalancing sell that fails is swallowed without changing the ledger.
C27_RebalanceSellsOneOrNothing ==
    [][RebalancingCycleRan =>
        LET n == ran'.agent
            held == DOMAIN accounts[n].holdings
        IN  /\ agents'[n].do_trade
            /\ (Cardinality(held) <= 5) => LedgerUntouched(n)
            /\ (Cardinality(held) > 5) =>
                /\ last'.op = "sell" /\ last'.account = n
                /\ last'.quantity = 1 /\ last'.symbol \in held
                /\ IF last'.status = "ok" THEN SoldOne(n, last'.symbol)
                   ELSE LedgerUntouched(n)]_vars

\* C27 amended: as above, but only a rebalancing sell that is rejected leaves
\* the ledger unchanged; one that fails after its ledger commit is swallowed
\* as well and leaves the share sold.
C27_RebalanceSellsOneOrNothing_Amended ==
    [][RebalancingCycleRan =>
        LET n == ran'.agent
            held == DOMAIN accounts[n].holdings
        IN  /\ agents'[n].do_trade
            /\ (Cardinality(held) <= 5) => LedgerUntouched(n)
            /\ (Cardinality(held) > 5) =>
                /\ last'.op = "sell" /\ last'.account = n
                /\ last'.quantity = 1 /\ last'.symbol \in held
                /\ IF last'.status \in {"ok", "PostCommitError"}
                   THEN SoldOne(n, last'.symbol)
                   ELSE LedgerUntouched(n)]_vars

\* a rebalancing cycle on an account of 6 positions had its sell rejected for
\* the price and left the 6 positions and the log of 6 buys, after which the
\* agent is back in trading mode
C27_Witness ==
    /\ ran.agent = AgentOrder[1] /\ ran.mode = "rebalancing" /\ ran.outcome = "completed"
    /\ last.op = "sell" /\ last.status = "InvalidPrice" /\ last.quantity = 1
    /\ Cardinality(DOMAIN accounts[AgentOrder[1]].holdings) = 6
    /\ Len(transactions) = 6
    /\ agents[AgentOrder[1]].do_trade

C30_WinRateZeroOrOne ==
    /\ [](\A n \in DOMAIN accounts :
            LET w == accounts[n].win_rate
            IN  /\ w.den >= 1
                /\ w.num = 0 \/ w.num = w.den
                /\ (SellsOf(transactions, n) = {}) => w.num = 0)
    /\ [][((TradeStep("buy") \/ TradeStep("sell")) /\ last'.status = "ok"
           /\ SellsOf(transactions', last'.account) # {}) =>
            LET w == accounts'[last'.account].win_rate
            IN  w.num = w.den /\ w.den >= 1]_vars

\* a buy was accepted on an account that had sold before: its win_rate is 1.0
C30_Witness ==
    /\ last.op = "buy" /\ last.status = "ok"
    /\ last.account \in DOMAIN accounts
    /\ SellsOf(transactions, last.account) # {}
    /\ Len(transactions) = 3
    /\ accounts[last.account].win_rate.num = accounts[last.account].win_rate.den
    /\ accounts[last.account].win_rate.num >= 1

====
